---- MODULE Spec2Model ----
(***************************************************************************)
(* A model of the RAMSES-II frame layer (ramses_rf/protocol/frame.py) and  *)
(* of the message processor (evohome/message.py).                          *)
(*                                                                         *)
(* Text is modelled structurally: a hex payload is a sequence of one-      *)
(* character strings (nibbles), a Python slice s[i:j] is Slice(s, i, j),   *)
(* a decimal field such as the length "003" is a sequence of digit         *)
(* characters, a device id "01:145038" is the pair <<"01", "145038">>,     *)
(* and a header "code|verb|id|ctx" is the sequence of its '|'-joined       *)
(* fields.  A lazily computed attribute is a tagged value: None, a         *)
(* boolean or a string.                                                    *)
(***************************************************************************)
EXTENDS Integers, Sequences, FiniteSets, TLC

VARIABLES
    line,    \* the input handed to Frame(...) / Frame._from_attrs(...)
    pc,      \* "new" | "frame" | "rejected" | "msg" | "failed" |
             \* "harvested" | "created" | "updated"
    frame,   \* the Frame object (its fields and its six cached attributes)
    last,    \* the most recent call on the frame: operation, result, exception
    msg,     \* the Message object built from the packet
    gwy,     \* the gateway's device registry: device id -> controller id
    evo,     \* the gateway's system (gateway.evo) and the zones it holds
    upd,     \* the deliveries of the message: devices and zones updated
    cli      \* the command line of the client and the library configuration

vars == <<line, pc, frame, last, msg, gwy, evo, upd, cli>>

-----------------------------------------------------------------------------
(* Bounds of the model *)

\* payloads of 0..MaxLen bytes (and one of 2 * MaxLen bytes) are explored
MaxLen == 6

-----------------------------------------------------------------------------
(* Text helpers *)

Min(a, b) == IF a < b THEN a ELSE b

\* Python's s[i:j] for 0 <= i <= j (indices clamp to the length of s)
Slice(s, i, j) == SubSeq(s, i + 1, Min(j, Len(s)))

HexChars == {"0", "1", "2", "3", "4", "5", "6", "7", "8", "9",
             "A", "B", "C", "D", "E", "F"}

DigitVal(c) ==
    CASE c = "0" -> 0 [] c = "1" -> 1 [] c = "2" -> 2 [] c = "3" -> 3
      [] c = "4" -> 4 [] c = "5" -> 5 [] c = "6" -> 6 [] c = "7" -> 7
      [] c = "8" -> 8 [] c = "9" -> 9

DigitChr(n) ==
    CASE n = 0 -> "0" [] n = 1 -> "1" [] n = 2 -> "2" [] n = 3 -> "3"
      [] n = 4 -> "4" [] n = 5 -> "5" [] n = 6 -> "6" [] n = 7 -> "7"
      [] n = 8 -> "8" [] n = 9 -> "9"

Digits == {"0", "1", "2", "3", "4", "5", "6", "7", "8", "9"}

\* int("003") for a field of three decimal digits
IntOf(d) == 100 * DigitVal(d[1]) + 10 * DigitVal(d[2]) + DigitVal(d[3])

\* f"{n:03d}" for 0 <= n <= 999
Fmt03d(n) == <<DigitChr(n \div 100), DigitChr((n \div 10) % 10), DigitChr(n % 10)>>

\* the tagged values of the lazily computed attributes
None == [k |-> "none", b |-> FALSE, s |-> <<>>]
Bool(x) == [k |-> "bool", b |-> x, s |-> <<>>]
Str(x) == [k |-> "str", b |-> FALSE, s |-> x]
IsStr(v) == v.k = "str"
\* Python truthiness of a tagged value (None, False and "" are falsy)
Truthy(v) == (v.k = "bool" /\ v.b) \/ (v.k = "str" /\ v.s # <<>>)

-----------------------------------------------------------------------------
(* Protocol constants: verbs, device types, roles, domain ids *)

I_ == " I"
RQ == "RQ"
RP == "RP"
W_ == " W"
Verbs == {I_, RQ, RP, W_}

F8 == <<"F", "8">>
F9 == <<"F", "9">>
FA == <<"F", "A">>
FC == <<"F", "C">>

DEV_TYPE_CTL == "01"
DEV_TYPE_UFC == "02"
DEV_TYPE_OTB == "10"
DEV_TYPE_DTS == "12"
DEV_TYPE_HGI == "18"
DEV_TYPE_DT2 == "22"
DEV_TYPE_PRG == "23"

DEV_ROLE_DHW == <<"0", "D">>
DEV_ROLE_HTG == <<"0", "E">>
DEV_ROLE_APP == <<"0", "F">>

\* an Address has an id and a type, the first two characters of the id
Address(i) == [id |-> i, type |-> i[1]]
NON_DEV_ADDR == Address(<<"--", "------">>)
NUL_DEV_ADDR == Address(<<"63", "262143">>)

\* the code tables of the registry
CODES_WITH_ARRAYS ==
    [c \in {"0005", "0009", "000A", "2309", "30C9", "22C9", "3150"} |->
        CASE c = "0005" -> 4 [] c = "0009" -> 3 [] c = "000A" -> 6
          [] c = "2309" -> 3 [] c = "30C9" -> 3 [] c = "22C9" -> 6
          [] c = "3150" -> 2]

CODE_IDX_COMPLEX == {"0005", "000C", "0404", "0418", "1100", "3220"}
CODE_IDX_NONE == {"1F09", "1FC9", "2E04", "31D9"}
CODE_IDX_SIMPLE == {"0009", "000A", "0016", "2309", "30C9", "22C9", "3150", "3B00"}
CODE_IDX_DOMAIN == {"0009", "1100", "1FC9", "3150", "3B00"}
CODES_ONLY_FROM_CTL == {"1F09"}
RQ_NO_PAYLOAD == {"000A", "0418", "1F09", "1FC9", "2309", "30C9"}

\* CODES_SCHEMA[code].get(verb, "")[:3] == "^00": the payload of this verb
\* of this code is declared to begin with 00
SchemaStarts00(code, verb) == verb = RQ /\ code \in {"1F09", "1FC9", "31D9"}

-----------------------------------------------------------------------------
(* Addresses and the frame grammar *)

\* a well-formed address field: "--:------" or two digits, ':', six digits
IsAddrField(a) == a = NON_DEV_ADDR.id \/ a[1] \in {"01", "02", "10", "12", "18", "30", "34", "63"}

\* pkt_addrs: the legal shapes of the address triplet
AddrSetValid(a) ==
    \/ a[1] # NON_DEV_ADDR.id /\ a[2] = NON_DEV_ADDR.id /\ a[3] # NON_DEV_ADDR.id
    \/ a[1] # NON_DEV_ADDR.id /\ a[2] # NON_DEV_ADDR.id /\ a[3] = NON_DEV_ADDR.id
    \/ a[1] = NON_DEV_ADDR.id /\ a[2] = NON_DEV_ADDR.id /\ a[3] # NON_DEV_ADDR.id

\* pkt_addrs: the fields that are devices, in order
DeviceAddrs(a) == SelectSeq(a, LAMBDA x : x # NON_DEV_ADDR.id)

\* pkt_addrs: src is the first device; dst the second one, or NON when the
\* frame names one device only (in one field); a frame from a device to
\* itself has dst == src
pkt_addrs(a) ==
    LET devs == DeviceAddrs(a)
    IN  [src |-> IF Len(devs) > 0 THEN Address(devs[1]) ELSE NON_DEV_ADDR,
         dst |-> IF Len(devs) > 1 THEN Address(devs[2]) ELSE NON_DEV_ADDR]

\* COMMAND_REGEX that also takes the legacy sequence number "..."
COMMAND_REGEX_LegacySeqn(l) ==
    /\ l.verb \in Verbs
    /\ l.seqn \in {<<"-", "-", "-">>, <<".", ".", ".">>} \/ \A i \in 1..3 : l.seqn[i] \in Digits
    /\ \A i \in 1..3 : IsAddrField(l.addrs[i])
    /\ \A i \in 1..3 : l.len_[i] \in Digits
    /\ Len(l.payload) % 2 = 0
    /\ Len(l.payload) \div 2 <= 48
    /\ \A i \in 1..Len(l.payload) : l.payload[i] \in HexChars

\* COMMAND_REGEX: verb, seqn, three address fields, code, length, payload
COMMAND_REGEX(l) ==
    /\ l.verb \in Verbs
    /\ l.seqn = <<"-", "-", "-">> \/ \A i \in 1..3 : l.seqn[i] \in Digits
    /\ \A i \in 1..3 : IsAddrField(l.addrs[i])
    /\ \A i \in 1..3 : l.len_[i] \in Digits
    /\ Len(l.payload) % 2 = 0
    /\ Len(l.payload) \div 2 <= 48
    /\ \A i \in 1..Len(l.payload) : l.payload[i] \in HexChars

NoFrame ==
    [verb |-> "", seqn |-> <<>>, src |-> NON_DEV_ADDR, dst |-> NON_DEV_ADDR,
     addrs |-> <<>>, code |-> "", len_ |-> <<>>, payload |-> <<>>, len |-> 0,
     ctx_ |-> None, hdr_ |-> None, idx_ |-> None,
     has_array_ |-> None, has_ctl_ |-> None, has_payload_ |-> None]

\* Frame.__init__ without the comparison of the payload with the length
FrameInitErr_NoLengthCheck(l) ==
    IF ~COMMAND_REGEX(l) THEN "InvalidPacketError"
    ELSE IF ~AddrSetValid(l.addrs) THEN "InvalidPacketError"
    ELSE "none"

\* Frame.__init__ that swallows the exception of pkt_addrs
FrameInitErr_NoAddrCheck(l) ==
    IF ~COMMAND_REGEX(l) THEN "InvalidPacketError"
    ELSE IF Len(l.payload) # IntOf(l.len_) * 2 THEN "InvalidPacketError"
    ELSE "none"

\* Frame.__init__: the exception it raises, "none" when it returns
FrameInitErr(l) ==
    IF ~COMMAND_REGEX(l) THEN "InvalidPacketError"
    ELSE IF ~AddrSetValid(l.addrs) THEN "InvalidPacketError"
    ELSE IF Len(l.payload) # IntOf(l.len_) * 2 THEN "InvalidPacketError"
    ELSE "none"

\* Frame.__init__: the object it builds
FrameInit(l) ==
    [verb |-> l.verb, seqn |-> l.seqn,
     src |-> pkt_addrs(l.addrs).src, dst |-> pkt_addrs(l.addrs).dst,
     addrs |-> l.addrs, code |-> l.code, len_ |-> l.len_,
     payload |-> l.payload, len |-> Len(l.payload) \div 2,
     ctx_ |-> None, hdr_ |-> None, idx_ |-> None,
     has_array_ |-> None, has_ctl_ |-> None, has_payload_ |-> None]

\* Frame._from_attrs: the line it joins from the attributes
FromAttrsLine(l) ==
    [l EXCEPT !.kind = "line",
              !.seqn = IF l.seqn = <<>> THEN <<"-", "-", "-">> ELSE l.seqn,
              !.len_ = Fmt03d(Len(l.payload) \div 2)]

\* the text of a line: its eight fields, which a space separates
Text(l) ==
    <<l.verb, l.seqn, l.addrs[1], l.addrs[2], l.addrs[3], l.code, l.len_, l.payload>>

\* Frame.__init__: the fields it takes from the text it is given
Fields(t) ==
    [kind |-> "line", verb |-> t[1], seqn |-> t[2], addrs |-> <<t[3], t[4], t[5]>>,
     code |-> t[6], len_ |-> t[7], payload |-> t[8]]

\* Frame.__repr__ that renders the source and the destination in place of
\* the three address fields
Repr_SrcDst(f) ==
    <<f.verb, f.seqn, f.src.id, f.dst.id, NON_DEV_ADDR.id, f.code, f.len_, f.payload>>

\* Frame.__repr__
Repr(f) ==
    <<f.verb, f.seqn, Address(f.addrs[1]).id, Address(f.addrs[2]).id,
      Address(f.addrs[3]).id, f.code, f.len_, f.payload>>

\* Frame._validate: the exception it raises, "none" when it returns
ValidateErr(f, strict_checking) ==
    IF f.seqn = <<".", ".", ".">> THEN "InvalidPacketError"
    ELSE IF ~strict_checking THEN "none"
    ELSE IF Len(f.payload) # IntOf(f.len_) * 2 THEN "InvalidPacketError"
    ELSE IF ~AddrSetValid(f.addrs) THEN "InvalidPacketError"
    ELSE "none"

\* Frame._validate: the frame afterwards (a strict validation that gets as
\* far as pkt_addrs assigns src and dst again)
ValidateFrame(f, strict_checking) ==
    IF strict_checking /\ ValidateErr(f, TRUE) = "none"
    THEN [f EXCEPT !.src = pkt_addrs(f.addrs).src, !.dst = pkt_addrs(f.addrs).dst]
    ELSE f

-----------------------------------------------------------------------------
(* The derived attributes of a Frame.  Each operator gives the outcome of  *)
(* one read: the frame afterwards (its caches), the value returned and the *)
(* exception raised ("none" when the read returns).                        *)

Ret(f, v) == [f |-> f, ret |-> v, err |-> "none"]
Raise(f, e) == [f |-> f, ret |-> None, err |-> e]

\* Frame._has_array: the test that sends a frame to the array rules
CanHaveArray_AnyVerb(f) == f.code \in DOMAIN CODES_WITH_ARRAYS

CanHaveArray(f) == f.verb = I_ /\ f.code \in DOMAIN CODES_WITH_ARRAYS

\* Frame._has_array: the three assertions on a payload of several elements
ArrayAsserts_NoLength(f) ==
    /\ f.src.type \in {DEV_TYPE_DTS, DEV_TYPE_DT2} \/ f.src.id = f.dst.id
    /\ f.src.type \notin {DEV_TYPE_DTS, DEV_TYPE_DT2} \/ f.dst.id = NON_DEV_ADDR.id

ArrayAsserts(f) ==
    /\ f.len % CODES_WITH_ARRAYS[f.code] = 0
    /\ f.src.type \in {DEV_TYPE_DTS, DEV_TYPE_DT2} \/ f.src.id = f.dst.id
    /\ f.src.type \notin {DEV_TYPE_DTS, DEV_TYPE_DT2} \/ f.dst.id = NON_DEV_ADDR.id

\* Frame._has_array
HasArray(f) ==
    IF f.has_array_ # None THEN Ret(f, f.has_array_)
    ELSE IF f.code = "1FC9"
        THEN Ret([f EXCEPT !.has_array_ = Bool(f.verb # RQ)], Bool(f.verb # RQ))
    ELSE IF ~CanHaveArray(f)
        THEN Ret([f EXCEPT !.has_array_ = Bool(FALSE)], Bool(FALSE))
    ELSE IF f.len = CODES_WITH_ARRAYS[f.code]
        THEN LET v == /\ f.code \in {"22C9", "3150"}
                      /\ f.src.type = DEV_TYPE_UFC
                      /\ f.dst.id = f.src.id
                      /\ Slice(f.payload, 0, 1) # <<"F">>
             IN  Ret([f EXCEPT !.has_array_ = Bool(v)], Bool(v))
    ELSE IF ~ArrayAsserts(f)
        THEN Raise(f, "AssertionError")
    ELSE Ret([f EXCEPT !.has_array_ = Bool(TRUE)], Bool(TRUE))

\* Frame._has_ctl without the exception for a broadcast of an OTB
HasCtl_NoOtbException(f) ==
    IF f.has_ctl_ # None THEN Ret(f, f.has_ctl_)
    ELSE LET v ==
             IF {f.src.type, f.dst.type} \cap {DEV_TYPE_CTL, DEV_TYPE_UFC, DEV_TYPE_PRG} # {}
                 THEN TRUE
             ELSE IF f.dst.id = f.src.id
                 THEN \/ f.code = "3B00" /\ Slice(f.payload, 0, 2) = FC
                      \/ f.code \in CODES_ONLY_FROM_CTL \cup {"31D9", "31DA"}
             ELSE IF f.dst.id = NON_DEV_ADDR.id
                 THEN TRUE
             ELSE IF f.dst.type \in {DEV_TYPE_DTS, DEV_TYPE_DT2}
                 THEN TRUE
             ELSE FALSE
         IN  Ret([f EXCEPT !.has_ctl_ = Bool(v)], Bool(v))

\* Frame._has_ctl
HasCtl(f) ==
    IF f.has_ctl_ # None THEN Ret(f, f.has_ctl_)
    ELSE LET v ==
             IF {f.src.type, f.dst.type} \cap {DEV_TYPE_CTL, DEV_TYPE_UFC, DEV_TYPE_PRG} # {}
                 THEN TRUE
             ELSE IF f.dst.id = f.src.id
                 THEN \/ f.code = "3B00" /\ Slice(f.payload, 0, 2) = FC
                      \/ f.code \in CODES_ONLY_FROM_CTL \cup {"31D9", "31DA"}
             ELSE IF f.dst.id = NON_DEV_ADDR.id
                 THEN f.src.type # DEV_TYPE_OTB
             ELSE IF f.dst.type \in {DEV_TYPE_DTS, DEV_TYPE_DT2}
                 THEN TRUE
             ELSE FALSE
         IN  Ret([f EXCEPT !.has_ctl_ = Bool(v)], Bool(v))

\* Frame._has_payload without the exception for code 0016
HasPayload_No0016Exception(f) ==
    IF f.has_payload_ # None THEN Ret(f, f.has_payload_)
    ELSE LET v == ~ \/ f.len = 1
                    \/ f.verb = RQ /\ f.code \in RQ_NO_PAYLOAD
                    \/ f.verb = RQ /\ f.len = 2
         IN  Ret([f EXCEPT !.has_payload_ = Bool(v)], Bool(v))

\* Frame._has_payload
HasPayload(f) ==
    IF f.has_payload_ # None THEN Ret(f, f.has_payload_)
    ELSE LET v == ~ \/ f.len = 1
                    \/ f.verb = RQ /\ f.code \in RQ_NO_PAYLOAD
                    \/ f.verb = RQ /\ f.len = 2 /\ f.code # "0016"
         IN  Ret([f EXCEPT !.has_payload_ = Bool(v)], Bool(v))

\* _pkt_idx: the index of a 3220 payload, its data-id
idx_3220_ZoneIdx(f) == Slice(f.payload, 0, 2)

idx_3220(f) == Slice(f.payload, 4, 6)

\* _pkt_idx: the rules of the codes that are neither complex nor without
\* an index, for a frame that is not an array
\* (c is the outcome of reading _has_ctl: the zone index of a frame that has
\* a controller, and the check that a frame without one starts with 00)
idx_zone(f, c) ==
    IF c.ret.b THEN Ret(c.f, Str(Slice(f.payload, 0, 2)))
    ELSE IF Slice(f.payload, 0, 2) # <<"0", "0">>
        THEN Raise(c.f, "InvalidPayloadError")
    ELSE Ret(c.f, None)

idx_simple_NoDomainCheck(f) ==
    IF Slice(f.payload, 0, 2) \in {F8, F9, FA, FC}
        THEN Ret(f, Str(Slice(f.payload, 0, 2)))
    ELSE idx_zone(f, HasCtl(f))

idx_simple(f) ==
    IF Slice(f.payload, 0, 2) \in {F8, F9, FA, FC} THEN
        IF f.code \notin CODE_IDX_DOMAIN
        THEN Raise(f, "InvalidPayloadError")
        ELSE Ret(f, Str(Slice(f.payload, 0, 2)))
    ELSE idx_zone(f, HasCtl(f))

\* _pkt_idx: the codes that are neither complex nor without an index (a is
\* the outcome of reading _has_array)
idx_other(a) ==
    IF a.err # "none" THEN a
    ELSE IF a.ret.b THEN Ret(a.f, Bool(TRUE))
    ELSE idx_simple(a.f)

\* _pkt_idx
pkt_idx(f) ==
    IF f.code = "0005" THEN HasArray(f)
    ELSE IF f.code = "0009" /\ f.src.type = DEV_TYPE_OTB THEN Ret(f, Bool(FALSE))
    ELSE IF f.code = "000C" THEN
        IF Slice(f.payload, 2, 4) = DEV_ROLE_APP THEN Ret(f, Str(FC))
        ELSE IF Slice(f.payload, 0, 4) = <<"0", "1">> \o DEV_ROLE_HTG THEN Ret(f, Str(F9))
        ELSE IF Slice(f.payload, 2, 4) \in {DEV_ROLE_DHW, DEV_ROLE_HTG} THEN Ret(f, Str(FA))
        ELSE Ret(f, Str(Slice(f.payload, 0, 2)))
    ELSE IF f.code = "0404" THEN
        Ret(f, Str(IF Slice(f.payload, 2, 4) = <<"2", "3">>
                   THEN <<"H", "W">> ELSE Slice(f.payload, 0, 2)))
    ELSE IF f.code = "0418" THEN Ret(f, Str(Slice(f.payload, 4, 6)))
    ELSE IF f.code = "1100" THEN
        IF Slice(f.payload, 0, 1) = <<"F">>
        THEN Ret(f, Str(Slice(f.payload, 0, 2))) ELSE Ret(f, Bool(FALSE))
    ELSE IF f.code = "3220" THEN Ret(f, Str(idx_3220(f)))
    ELSE IF f.code \in CODE_IDX_COMPLEX THEN Raise(f, "NotImplementedError")
    ELSE IF f.code \in CODE_IDX_NONE THEN
        IF SchemaStarts00(f.code, f.verb) /\ Slice(f.payload, 0, 2) # <<"0", "0">>
        THEN Raise(f, "InvalidPayloadError") ELSE Ret(f, Bool(FALSE))
    ELSE idx_other(HasArray(f))

\* Frame._idx: the value kept, "_pkt_idx(self) or False"
OrFalse(v) == IF Truthy(v) THEN v ELSE Bool(FALSE)

\* Frame._idx: what is kept of the outcome r of _pkt_idx
IdxKeep(r) ==
    IF r.err # "none" THEN r
    ELSE Ret([r.f EXCEPT !.idx_ = OrFalse(r.ret)], OrFalse(r.ret))

\* Frame._idx
Idx(f) == IF f.idx_ # None THEN Ret(f, f.idx_) ELSE IdxKeep(pkt_idx(f))

\* Frame._ctx: the context made of the outcome i of reading _idx
CtxKeep(f, i) ==
    IF i.err # "none" THEN i
    ELSE IF f.code = "0404" THEN
        IF ~IsStr(i.ret) THEN Raise(i.f, "TypeError")
        ELSE Ret([i.f EXCEPT !.ctx_ = Str(i.ret.s \o Slice(f.payload, 10, 12))],
                 Str(i.ret.s \o Slice(f.payload, 10, 12)))
    ELSE Ret([i.f EXCEPT !.ctx_ = i.ret], i.ret)

\* Frame._ctx
Ctx(f) ==
    IF f.ctx_ # None THEN Ret(f, f.ctx_)
    ELSE IF f.code \in {"0005", "000C"}
        THEN LET v == Str(Slice(f.payload, 0, 4))
             IN  Ret([f EXCEPT !.ctx_ = v], v)
    ELSE CtxKeep(f, Idx(f))

\* pkt_header: the ending shared by the header and the rx-header, which
\* appends the context when it is a string
\* (c is the outcome of reading _ctx)
HeaderAppend(header, c) ==
    IF c.err = "AssertionError" THEN Ret(c.f, Str(header))
    ELSE IF c.err # "none" THEN c
    ELSE IF IsStr(c.ret) THEN Ret(c.f, Str(Append(header, c.ret.s)))
    ELSE Ret(c.f, Str(header))

HeaderWithCtx(f, header) == HeaderAppend(header, Ctx(f))

\* pkt_header: the device the header of a frame (not 1FC9) names
header_addr_NoGatewaySwap(f) == f.src

header_addr(f) == IF f.src.type = DEV_TYPE_HGI THEN f.dst ELSE f.src

\* pkt_header: the rx-header of a 1FC9 frame
bind_rx_header_ToDst(f) ==
    IF f.src.id = f.dst.id THEN Str(<<f.code, W_, f.src.id>>)
    ELSE IF f.verb = W_ THEN Str(<<f.code, I_, f.dst.id>>)
    ELSE None

\* pkt_header: the rx-header of a 1FC9 frame, were an offer answered by an I
bind_rx_header_OfferExpectsI(f) ==
    IF f.src.id = f.dst.id THEN Str(<<f.code, I_, f.src.id>>)
    ELSE IF f.verb = W_ THEN Str(<<f.code, I_, f.src.id>>)
    ELSE None

bind_rx_header(f) ==
    IF f.src.id = f.dst.id THEN Str(<<f.code, W_, f.src.id>>)
    ELSE IF f.verb = W_ THEN Str(<<f.code, I_, f.src.id>>)
    ELSE None

\* pkt_header
pkt_header(f, rx_header) ==
    IF f.code = "1FC9" THEN
        IF ~rx_header THEN
            Ret(f, Str(<<f.code, f.verb,
                         IF f.src.id = f.dst.id THEN NUL_DEV_ADDR.id ELSE f.dst.id>>))
        ELSE Ret(f, bind_rx_header(f))
    ELSE IF ~rx_header THEN HeaderWithCtx(f, <<f.code, f.verb, header_addr(f).id>>)
    ELSE IF f.verb \in {I_, RP} \/ f.src.id = f.dst.id THEN Ret(f, None)
    ELSE HeaderWithCtx(f, <<f.code, IF f.verb = RQ THEN RP ELSE I_, header_addr(f).id>>)

\* Frame._hdr: what is kept of the outcome r of pkt_header
HdrKeep(r) ==
    IF r.err # "none" THEN r ELSE Ret([r.f EXCEPT !.hdr_ = r.ret], r.ret)

\* Frame._hdr: the code and the verb are stored before pkt_header is called
Hdr(f) ==
    IF f.hdr_ # None THEN Ret(f, f.hdr_)
    ELSE HdrKeep(pkt_header([f EXCEPT !.hdr_ = Str(<<f.code, f.verb>>)], FALSE))

\* Frame._force_has_array that leaves the cached index in place
ForceHasArrayOf_KeepIdx(f) ==
    [f EXCEPT !.has_array_ = Bool(TRUE), !.ctx_ = None, !.hdr_ = None]

\* Frame._force_has_array
ForceHasArrayOf(f) ==
    [f EXCEPT !.has_array_ = Bool(TRUE), !.ctx_ = None, !.hdr_ = None, !.idx_ = None]

-----------------------------------------------------------------------------
(* The message processor (evohome/message.py) *)

\* what the payload parser selected for the code does with the raw payload:
\* it returns a record, a list or something else, or it raises; "no parser"
\* is a code for which the parsers module has no parser_<code>
ParseOutcomes == {"dict", "list", "other", "AssertionError", "ValueError", "no parser"}

\* parsers.parser_unknown: the raw payload in a record of one field
parser_unknown == "dict"

\* Message._parse_payload: what running the parser gives, parser_unknown
\* being the parser when the lookup of parser_<code> fails
ParserResult(outcome) == IF outcome = "no parser" THEN parser_unknown ELSE outcome

NoMsg ==
    [verb |-> "", code |-> "", src |-> NON_DEV_ADDR, dst |-> NON_DEV_ADDR,
     raw_payload |-> <<>>, payload |-> "None", is_array_ |-> None, is_valid_ |-> None]

\* Message.is_array, as computed on its first read
is_array(m) ==
    IF m.code \in {"000C", "1FC9"} THEN m.verb \in {I_, RP}
    ELSE IF m.verb \notin {I_, RP} \/ m.src.id # m.dst.id THEN FALSE
    ELSE IF m.code = "0009" /\ m.src.type = "01"
        THEN m.verb = I_ /\ Slice(m.raw_payload, 0, 1) = <<"F">>
    ELSE IF m.code \in {"000A", "2309", "30C9"} /\ m.src.type = "01"
        THEN m.verb = I_ /\ m.src.id = m.dst.id
    ELSE IF m.code \in {"22C9", "3150"} /\ m.src.type = "02"
        THEN IF Slice(m.raw_payload, 0, 1) # <<"F">>
             THEN m.verb = I_ /\ m.src.id = m.dst.id ELSE FALSE
    ELSE IF m.code = "2249" /\ m.src.type = "23"
        THEN m.verb = I_ /\ m.src.id = m.dst.id
    ELSE FALSE

\* Message._parse_payload: the exception that leaves it, "none" when it returns
ParsePayloadErr(outcome) ==
    IF ParserResult(outcome) \in {"dict", "list", "other", "AssertionError"}
    THEN "none" ELSE ParserResult(outcome)

\* Message._parse_payload without the assertion on the type of the result
ParsePayloadValid_NoAssert(outcome) ==
    ParserResult(outcome) \in {"dict", "list", "other"}

\* Message._parse_payload: the value it returns
ParsePayloadValid(outcome) == ParserResult(outcome) \in {"dict", "list"}

\* Message._parse_payload: self._payload afterwards (it is assigned only
\* when the parser returns)
ParsePayloadValue(outcome) ==
    IF ParserResult(outcome) \in {"dict", "list", "other"}
    THEN ParserResult(outcome) ELSE "None"

\* Message.__init__: the fields taken from the packet
MessageFields(f) ==
    [verb |-> f.verb, code |-> f.code, src |-> f.src, dst |-> f.dst,
     raw_payload |-> f.payload, payload |-> "None",
     is_array_ |-> None, is_valid_ |-> None]

\* Message.__init__: the object after _parse_payload and the closing assertion
MessageInit(f, outcome) ==
    LET m == MessageFields(f)
        p == [m EXCEPT !.payload = ParsePayloadValue(outcome),
                       !.is_valid_ = Bool(ParsePayloadValid(outcome))]
    IN  IF p.code # "000C" THEN [p EXCEPT !.is_array_ = Bool(is_array(p))] ELSE p

\* the gateway has no system yet (gateway.evo is None)
NoEvo == [exists |-> FALSE, zones |-> {}]

\* Message.is_fragment_WIP: the exception it raises, "none" when it returns
\* (it reads the zones of the system for a 000A I)
FragmentErr(f, e) ==
    IF f.code = "000A" /\ f.verb = I_ /\ ~e.exists THEN "AttributeError" ELSE "none"

\* Message.__init__: the exception it raises, "none" when it returns
MessageInitErr(f, outcome, e) ==
    IF ParsePayloadErr(outcome) # "none" THEN ParsePayloadErr(outcome)
    ELSE IF FragmentErr(f, e) # "none" THEN FragmentErr(f, e)
    ELSE IF f.code # "000C"
            /\ is_array(MessageFields(f)) # (ParsePayloadValue(outcome) = "list")
        THEN "AssertionError"
    ELSE "none"

\* the builtin all(): it takes exactly one argument, an iterable
PyAll(args) ==
    IF Len(args) # 1 THEN [ret |-> None, err |-> "TypeError"]
    ELSE [ret |-> Bool(\A i \in 1..Len(args[1]) : args[1][i]), err |-> "none"]

\* Message.__eq__: the five comparisons are handed to all() as five arguments
msg_eq(m, other) ==
    PyAll(<<m.verb = other.verb, m.code = other.code, m.src = other.src,
            m.dst = other.dst, m.raw_payload = other.raw_payload>>)

-----------------------------------------------------------------------------
(* The gateway's registry and Message.harvest_devices *)

NoCtl == NON_DEV_ADDR.id
NoZone == <<>>

\* the harvest function of the gateway, forgetting the parent zone
harvest_func_NoParent(g, a, ctl, parent) ==
    IF a.id \in {NON_DEV_ADDR.id, NUL_DEV_ADDR.id} THEN g
    ELSE [d \in DOMAIN g \cup {a.id} |->
            LET old == IF d \in DOMAIN g THEN g[d] ELSE [ctl |-> NoCtl, parent |-> NoZone]
            IN  IF d # a.id THEN old
                ELSE [ctl |-> IF ctl # NoCtl THEN ctl ELSE old.ctl,
                      parent |-> old.parent]]

\* the harvest function of the gateway: create the device unless it is
\* there already, and record its controller and its parent zone when given
harvest_func(g, a, ctl, parent) ==
    IF a.id \in {NON_DEV_ADDR.id, NUL_DEV_ADDR.id} THEN g
    ELSE [d \in DOMAIN g \cup {a.id} |->
            LET old == IF d \in DOMAIN g THEN g[d] ELSE [ctl |-> NoCtl, parent |-> NoZone]
            IN  IF d # a.id THEN old
                ELSE [ctl |-> IF ctl # NoCtl THEN ctl ELSE old.ctl,
                      parent |-> IF parent # NoZone THEN parent ELSE old.parent]]

\* Message.__init__: gateway.get_device for the source and the destination
\* of the packet, which creates the devices the registry does not hold yet
get_devices(g, f) ==
    harvest_func(harvest_func(g, f.src, NoCtl, NoZone), f.dst, NoCtl, NoZone)

\* Device.is_controller
is_controller(a) == a.type = "01"

\* the device ids a parsed 000C payload lists as the actuators of the zone
Actuators(m) ==
    IF Len(m.raw_payload) >= 12
    THEN {<<"04", "000001">>, <<"04", "000002">>} ELSE {}

RECURSIVE HarvestAll(_, _, _, _)
HarvestAll(g, ids, ctl, parent) ==
    IF ids = {} THEN g
    ELSE LET i == CHOOSE x \in ids : TRUE
         IN  HarvestAll(harvest_func(g, Address(i), ctl, parent), ids \ {i}, ctl, parent)

\* Message.harvest_devices: the exception it raises, "none" when it returns
HarvestErr(m) ==
    IF m.code = "000C" /\ m.verb = RP /\ m.payload # "dict" THEN "TypeError" ELSE "none"

\* Message.harvest_devices that looks at the destination before the source
harvest_devices_DstFirst(g, m) ==
    IF m.code = "1F09" /\ m.verb = I_ THEN harvest_func(g, m.dst, m.src.id, NoZone)
    ELSE IF m.code = "31D9" /\ m.verb = I_ THEN harvest_func(g, m.dst, m.src.id, NoZone)
    ELSE IF m.code = "000C" /\ m.verb = RP THEN
        LET g1 == harvest_func(g, m.dst, m.src.id, NoZone)
        IN  IF m.payload # "dict" THEN g1
            ELSE HarvestAll(g1, Actuators(m), m.src.id, Slice(m.raw_payload, 0, 2))
    ELSE IF is_controller(m.dst) THEN harvest_func(g, m.src, m.dst.id, NoZone)
    ELSE IF is_controller(m.src) THEN harvest_func(g, m.dst, m.src.id, NoZone)
    ELSE harvest_func(harvest_func(g, m.src, NoCtl, NoZone), m.dst, NoCtl, NoZone)

\* Message.harvest_devices: the registry afterwards
harvest_devices(g, m) ==
    IF m.code = "1F09" /\ m.verb = I_ THEN harvest_func(g, m.dst, m.src.id, NoZone)
    ELSE IF m.code = "31D9" /\ m.verb = I_ THEN harvest_func(g, m.dst, m.src.id, NoZone)
    ELSE IF m.code = "000C" /\ m.verb = RP THEN
        LET g1 == harvest_func(g, m.dst, m.src.id, NoZone)
        IN  IF m.payload # "dict" THEN g1
            ELSE HarvestAll(g1, Actuators(m), m.src.id, Slice(m.raw_payload, 0, 2))
    ELSE IF is_controller(m.src) THEN harvest_func(g, m.dst, m.src.id, NoZone)
    ELSE IF is_controller(m.dst) THEN harvest_func(g, m.src, m.dst.id, NoZone)
    ELSE harvest_func(harvest_func(g, m.src, NoCtl, NoZone), m.dst, NoCtl, NoZone)

-----------------------------------------------------------------------------
(* Message._create_entities and Message._update_entities *)

\* the codes whose parsed payload is a record with a zone_idx
ZoneCodes == {"000A", "000C", "0404", "2309", "30C9", "3150"}

\* payload.get("zone_idx") of a parsed record: the first byte of the raw
\* payload, None when the record has no such key
zone_idx(m) ==
    IF /\ m.payload = "dict" /\ m.code \in ZoneCodes /\ Len(m.raw_payload) >= 2
       /\ Slice(m.raw_payload, 0, 2) \notin {F8, F9, FA, FC}
    THEN Str(Slice(m.raw_payload, 0, 2)) ELSE None

\* d["zone_idx"] for every element d of a parsed list of a sync_cycle code
ElementZones(m) ==
    {Slice(m.raw_payload, 2 * k * CODES_WITH_ARRAYS[m.code],
                          2 * k * CODES_WITH_ARRAYS[m.code] + 2) :
        k \in 0..((Len(m.raw_payload) \div (2 * CODES_WITH_ARRAYS[m.code])) - 1)}

\* Message._create_entities: the exception it raises, "none" when it returns
CreateErr(m) ==
    IF m.src.type # "01" THEN "none"
    ELSE IF m.payload = "dict" THEN "none"
    ELSE IF m.code \notin {"000A", "2309", "30C9"} THEN "none"
    ELSE IF m.payload # "list" THEN "TypeError"
    ELSE "none"

\* Message._create_entities: the zones of the system afterwards
create_entities(e, m) ==
    IF m.src.type # "01" THEN e
    ELSE IF m.payload = "dict" THEN e
    ELSE IF m.code \notin {"000A", "2309", "30C9"} THEN e
    ELSE IF m.payload # "list" THEN e
    ELSE [e EXCEPT !.zones = e.zones \cup ElementZones(m)]

\* no message has been delivered
NoUpdates == [devs |-> {}, zones |-> {}, known |-> "", parent_idx |-> <<>>]

\* known_devices[src.id].get("zone_idx"): kd is "absent" when the source is
\* not in known_devices, "plain" when its entry has no zone_idx
known_idx(kd) ==
    CASE kd = "zone 01" -> <<"0", "1">>
      [] kd = "zone 02" -> <<"0", "2">>
      [] OTHER -> <<>>

\* Message._update_entities: the exception the heuristics at its head
\* raise, "none" when they pass (pidx is payload["parent_idx"], <<>> when
\* the payload has no such key)
UpdateErr(g, m, kd, pidx) ==
    IF m.payload # "dict" \/ kd = "absent" \/ known_idx(kd) = <<>> THEN "none"
    ELSE IF m.src.id \notin DOMAIN g THEN "KeyError"
    ELSE IF g[m.src.id].parent # NoZone /\ known_idx(kd) # g[m.src.id].parent
        THEN "AssertionError"
    ELSE IF pidx # <<>> /\ known_idx(kd) # pidx THEN "AssertionError"
    ELSE "none"

\* Message._update_entities: the zones the message is delivered to
UpdatedZones(e, m) ==
    IF ~e.exists \/ m.payload = "None" THEN {}
    ELSE IF m.payload = "dict" /\ IsStr(zone_idx(m)) /\ zone_idx(m).s \in e.zones
        THEN {zone_idx(m).s}
    ELSE {}

\* Message._update_entities: the deliveries afterwards
update_entities(u, g, e, m, kd, pidx) ==
    IF UpdateErr(g, m, kd, pidx) # "none" \/ m.src.id \notin DOMAIN g
    THEN [u EXCEPT !.known = kd, !.parent_idx = pidx]
    ELSE [devs |-> u.devs \cup {m.src.id}, zones |-> u.zones \cup UpdatedZones(e, m),
          known |-> kd, parent_idx |-> pidx]

-----------------------------------------------------------------------------
(* The execute command of the client (client.py) *)

\* no command has been given to the client
NoCli ==
    [stage |-> "none", discover |-> "None", exec_cmd |-> FALSE,
     get_faults |-> <<>>, get_sched |-> <<>>, set_sched |-> <<>>,
     disable_discovery |-> "absent", known_list |-> {},
     enforce_known_list |-> "absent"]

\* execute: the known list it derives from the options (<<>> is None)
execute_known_list(c) ==
    IF c.get_faults # <<>> THEN {c.get_faults}
    ELSE IF c.get_sched # <<>> THEN {c.get_sched}
    ELSE IF c.set_sched # <<>> THEN {c.set_sched}
    ELSE {}

\* execute: the library configuration handed to main(EXECUTE, lib_config)
execute(c) ==
    [c EXCEPT !.stage = "main",
              !.disable_discovery = "False",
              !.known_list = execute_known_list(c),
              !.enforce_known_list =
                  IF execute_known_list(c) # {} THEN "True" ELSE c.enforce_known_list]

-----------------------------------------------------------------------------
(* The inputs explored *)

CTL == <<"01", "145038">>
CT2 == <<"01", "145039">>
CT3 == <<"01", "145040">>
UFC == <<"02", "044328">>
OTB == <<"10", "050360">>
DTS == <<"12", "126457">>
HGI == <<"18", "013393">>
RFG == <<"30", "258720">>
REM == <<"34", "021943">>
NON == NON_DEV_ADDR.id

\* address triplets of the legal shapes
MainAddrSets ==
    {<<CTL, NON, CTL>>, <<UFC, NON, UFC>>, <<REM, NON, REM>>,
     <<NON, NON, DTS>>, <<NON, NON, OTB>>, <<OTB, NON, DTS>>,
     <<RFG, OTB, NON>>, <<HGI, OTB, NON>>, <<OTB, HGI, NON>>,
     <<CTL, REM, NON>>, <<REM, CTL, NON>>, <<HGI, CTL, NON>>, <<CTL, HGI, NON>>}

\* address triplets of every shape over two devices, and three devices
ShapeAddrSets ==
    {<<a, b, c>> : a \in {NON, CTL, CT2}, b \in {NON, CTL, CT2}, c \in {NON, CTL, CT2}}
        \cup {<<CTL, CT2, CT3>>, <<CTL, <<"0X", "145038">>, NON>>}

Codes == {"0005", "0009", "000A", "000C", "0016", "0404", "0418", "1100", "1F09",
          "1FC9", "22C9", "2309", "2E04", "30C9", "3150", "31D9", "3220", "3B00"}

\* the payload of n bytes that begins with the nibbles h and goes on with 0s
Pay(h, n) == [i \in 1..(2 * n) |-> IF i <= Len(h) THEN h[i] ELSE "0"]

Lens == (0..MaxLen) \cup {2 * MaxLen}

\* the leading nibbles that steer a code's index, context or array rules
HeadsOf(c) ==
    CASE c = "000C" -> {<<"0", "0", "0", "F">>, <<"0", "1", "0", "E">>,
                        <<"0", "0", "0", "D">>, <<"0", "1", "0", "0">>}
      [] c = "0404" -> {<<"0", "0", "2", "3">>, <<"0", "1", "2", "0">>}
      [] c = "0418" -> {<<"0", "0", "0", "0", "0", "1">>, <<"0", "0", "0", "0", "F", "C">>}
      [] c = "3220" -> {<<"0", "0", "0", "0", "0", "5">>}
      [] c = "0005" -> {<<"0", "0", "0", "8">>}
      [] c = "1100" -> {<<"0", "0">>, <<"F", "9">>, <<"F", "C">>}
      [] OTHER -> {<<"0", "0">>, <<"0", "1">>, <<"F", "C">>}

\* the payload lengths (in bytes) that steer a code's rules
LensOf(c) ==
    CASE c \in {"000C", "0404"} -> {0, 2, 6}
      [] c \in {"0418", "3220"} -> {1, 3, 5}
      [] c = "0005" -> {2, 4, 8, 12}
      [] c \in {"000A", "22C9"} -> {1, 6, 12}
      [] c \in {"0009", "2309", "30C9"} -> {0, 1, 2, 3, 6}
      [] c = "3150" -> {1, 2, 4}
      [] c = "0016" -> {1, 2}
      [] OTHER -> {0, 1, 3}

PayloadsOf(c) == {Pay(h, n) : h \in HeadsOf(c), n \in LensOf(c) \cap Lens}

Dashes == <<"-", "-", "-">>

Line(k, v, s, a, c, l, p) ==
    [kind |-> k, verb |-> v, seqn |-> s, addrs |-> a, code |-> c, len_ |-> l, payload |-> p]

\* well-formed lines: every verb, legal triplet, code and payload
MainLines ==
    UNION {{Line("line", v, Dashes, a, c, Fmt03d(Len(p) \div 2), p) :
                v \in Verbs, a \in MainAddrSets, p \in PayloadsOf(c)} : c \in Codes}

\* lines of every address shape
ShapeLines ==
    {Line("line", I_, Dashes, a, "0009", Fmt03d(3), Pay(<<>>, 3)) : a \in ShapeAddrSets}

\* lines of every sequence number, verb and declared length, with payloads
\* of a whole and of a broken number of bytes
GrammarLines ==
    {Line("line", v, s, <<CTL, NON, CTL>>, "2309", Fmt03d(n), p) :
        v \in {I_, RQ, "XX"},
        s \in {Dashes, <<"0", "1", "2">>, <<".", ".", ".">>},
        n \in 0..(MaxLen + 1),
        p \in {Pay(<<"0", "1">>, m) : m \in 0..MaxLen} \cup {<<"0", "1", "0">>, <<"0", "G">>}}

\* attributes handed to Frame._from_attrs (a seqn of <<>> stands for None)
AttrLines ==
    {Line("attrs", v, s, a, "2309", <<>>, p) :
        v \in {I_, RQ},
        s \in {<<>>, <<"0", "1", "2">>},
        a \in {<<CTL, NON, CTL>>, <<CTL, CT2, CT3>>},
        p \in {Pay(<<"0", "1">>, m) : m \in 0..MaxLen} \cup {<<"0", "1", "0">>}}

Lines == MainLines \cup ShapeLines \cup GrammarLines \cup AttrLines

\* the registry of a gateway that has seen no packet yet
NoDevices == <<>>

\* the system of the gateway a message is built for: none yet, or one with
\* zone 01
Evos == {NoEvo, [exists |-> TRUE, zones |-> {<<"0", "1">>}]}

\* the message another message is compared with: one with the same fields,
\* or one that differs in the field d
Differs == {"same", "verb", "raw_payload"}

OtherMsg(m, d) ==
    CASE d = "verb" -> [m EXCEPT !.verb = IF m.verb = RQ THEN RP ELSE RQ]
      [] d = "raw_payload" -> [m EXCEPT !.raw_payload = m.raw_payload \o <<"0", "0">>]
      [] OTHER -> m

\* the entry of the source in known_devices with payload["parent_idx"]
KnownInputs ==
    {<<"absent", <<>>>>, <<"zone 01", <<>>>>,
     <<"zone 01", <<"0", "1">>>>, <<"zone 02", <<"0", "1">>>>}

-----------------------------------------------------------------------------
(* The state machine *)

Call(op, r) == [op |-> op, arg |-> "", ret |-> r.ret, err |-> r.err]
NoCall == [op |-> "none", arg |-> "", ret |-> None, err |-> "none"]

Init ==
    /\ line \in Lines
    /\ pc = "new"
    /\ frame = NoFrame
    /\ last = NoCall
    /\ msg = NoMsg
    /\ gwy = NoDevices
    /\ evo = NoEvo
    /\ upd = NoUpdates
    /\ cli = NoCli

\* Frame(line)
Construct ==
    /\ pc = "new" /\ line.kind = "line"
    /\ LET e == FrameInitErr(line) IN
        /\ pc' = IF e = "none" THEN "frame" ELSE "rejected"
        /\ frame' = IF e = "none" THEN FrameInit(line) ELSE NoFrame
        /\ last' = [op |-> "Frame", arg |-> "", ret |-> None, err |-> e]
    /\ UNCHANGED <<line, msg, gwy, evo, upd, cli>>

\* Frame._from_attrs(verb, *addrs, code=, payload=, seqn=)
FromAttrs ==
    /\ pc = "new" /\ line.kind = "attrs"
    /\ LET l == FromAttrsLine(line)
           e == FrameInitErr(l) IN
        /\ pc' = IF e = "none" THEN "frame" ELSE "rejected"
        /\ frame' = IF e = "none" THEN FrameInit(l) ELSE NoFrame
        /\ last' = [op |-> "Frame", arg |-> "", ret |-> None, err |-> e]
    /\ UNCHANGED <<line, msg, gwy, evo, upd, cli>>

Read(op, r) ==
    /\ pc = "frame"
    /\ frame' = r.f
    /\ last' = Call(op, r)
    /\ UNCHANGED <<line, pc, msg, gwy, evo, upd, cli>>

ReadHasArray == Read("_has_array", HasArray(frame))
ReadHasCtl == Read("_has_ctl", HasCtl(frame))
ReadHasPayload == Read("_has_payload", HasPayload(frame))
ReadIdx == Read("_idx", Idx(frame))
ReadCtx == Read("_ctx", Ctx(frame))
ReadHdr == Read("_hdr", Hdr(frame))

\* pkt_header(frame) and pkt_header(frame, rx_header=True)
PktHeader == Read("pkt_header", pkt_header(frame, FALSE))
PktRxHeader == Read("pkt_rx_header", pkt_header(frame, TRUE))

\* the message processor finds that the one-element payload of the frame
\* is the tail of an array, and calls Frame._force_has_array
DetectArray(f) ==
    /\ f.verb = I_
    /\ f.code \in DOMAIN CODES_WITH_ARRAYS
    /\ f.len = CODES_WITH_ARRAYS[f.code]

ForceHasArray ==
    /\ pc = "frame"
    /\ DetectArray(frame)
    /\ frame' = ForceHasArrayOf(frame)
    /\ last' = [op |-> "_force_has_array", arg |-> "", ret |-> None, err |-> "none"]
    /\ UNCHANGED <<line, pc, msg, gwy, evo, upd, cli>>

\* frame._validate(strict_checking=...), for a frame as it was constructed
Validate ==
    /\ pc = "frame" /\ last.op = "Frame"
    /\ \E strict_checking \in BOOLEAN :
        /\ frame' = ValidateFrame(frame, strict_checking)
        /\ last' = [op |-> "_validate",
                    arg |-> IF strict_checking THEN "strict" ELSE "",
                    ret |-> None, err |-> ValidateErr(frame, strict_checking)]
    /\ UNCHANGED <<line, pc, msg, gwy, evo, upd, cli>>

\* repr(frame), for a frame as it was constructed
ReadRepr ==
    /\ pc = "frame" /\ last.op = "Frame"
    /\ last' = [op |-> "__repr__", arg |-> "", ret |-> Str(Repr(frame)), err |-> "none"]
    /\ UNCHANGED <<line, pc, frame, msg, gwy, evo, upd, cli>>

\* Message(gateway, pkt), for a packet as it was constructed
MsgInit ==
    /\ pc = "frame" /\ last.op = "Frame"
    /\ \E outcome \in ParseOutcomes, system \in Evos :
        LET e == MessageInitErr(frame, outcome, system) IN
        /\ pc' = IF e = "none" THEN "msg" ELSE "failed"
        /\ msg' = IF e = "none" THEN MessageInit(frame, outcome) ELSE NoMsg
        /\ last' = [op |-> "Message", arg |-> outcome, ret |-> None, err |-> e]
        /\ evo' = system
    /\ gwy' = get_devices(gwy, frame)
    /\ UNCHANGED <<line, frame, upd, cli>>

\* msg.harvest_devices(gateway.get_device)
Harvest ==
    /\ pc = "msg"
    /\ pc' = "harvested"
    /\ gwy' = harvest_devices(gwy, msg)
    /\ last' = [op |-> "harvest_devices", arg |-> "", ret |-> None, err |-> HarvestErr(msg)]
    /\ UNCHANGED <<line, frame, msg, evo, upd, cli>>

\* msg == other, for a message as it was constructed
MsgEq ==
    /\ pc = "msg" /\ last.op = "Message"
    /\ \E d \in Differs :
        last' = [op |-> "__eq__", arg |-> d,
                 ret |-> msg_eq(msg, OtherMsg(msg, d)).ret,
                 err |-> msg_eq(msg, OtherMsg(msg, d)).err]
    /\ UNCHANGED <<line, pc, frame, msg, gwy, evo, upd, cli>>

\* msg._create_entities()
CreateEntities ==
    /\ pc = "harvested"
    /\ pc' = "created"
    /\ evo' = create_entities(evo, msg)
    /\ last' = [op |-> "_create_entities", arg |-> "", ret |-> None, err |-> CreateErr(msg)]
    /\ UNCHANGED <<line, frame, msg, gwy, upd, cli>>

\* msg._update_entities(), for the entry known_devices holds of the source
UpdateEntities ==
    /\ pc = "created"
    /\ pc' = "updated"
    /\ \E k \in KnownInputs :
        /\ upd' = update_entities(upd, gwy, evo, msg, k[1], k[2])
        /\ last' = [op |-> "_update_entities", arg |-> k[1], ret |-> None,
                    err |-> UpdateErr(gwy, msg, k[1], k[2])]
    /\ UNCHANGED <<line, frame, msg, gwy, evo, cli>>

\* msg.is_array
ReadIsArray ==
    /\ pc = "msg"
    /\ LET v == IF msg.is_array_ # None THEN msg.is_array_ ELSE Bool(is_array(msg)) IN
        /\ msg' = [msg EXCEPT !.is_array_ = v]
        /\ last' = [op |-> "is_array", arg |-> "", ret |-> v, err |-> "none"]
    /\ UNCHANGED <<line, pc, frame, gwy, evo, upd, cli>>

Next ==
    \/ Construct
    \/ FromAttrs
    \/ ReadHasArray
    \/ ReadHasCtl
    \/ ReadHasPayload
    \/ ReadIdx
    \/ ReadCtx
    \/ ReadHdr
    \/ PktHeader
    \/ PktRxHeader
    \/ ForceHasArray
    \/ Validate
    \/ ReadRepr
    \/ MsgInit
    \/ MsgEq
    \/ Harvest
    \/ CreateEntities
    \/ UpdateEntities
    \/ ReadIsArray

Spec == Init /\ [][Next]_vars

-----------------------------------------------------------------------------
(* The client: one run of the execute command *)

\* the options of the command line, and what the configuration file says of
\* discovery and of the known list
CliInputs ==
    [stage : {"start"}, discover : {"None", "True", "False"}, exec_cmd : BOOLEAN,
     get_faults : {<<>>, CTL}, get_sched : {<<>>, CTL}, set_sched : {<<>>, CT2},
     disable_discovery : {"absent", "True", "False"}, known_list : {{}},
     enforce_known_list : {"absent", "False"}]

InitExec ==
    /\ line = Line("line", I_, Dashes, <<CTL, NON, CTL>>, "0009", Fmt03d(3), Pay(<<>>, 3))
    /\ pc = "cli"
    /\ frame = NoFrame
    /\ last = NoCall
    /\ msg = NoMsg
    /\ gwy = NoDevices
    /\ evo = NoEvo
    /\ upd = NoUpdates
    /\ cli \in CliInputs

\* client.py execute ...
Execute ==
    /\ pc = "cli" /\ cli.stage = "start"
    /\ cli' = execute(cli)
    /\ UNCHANGED <<line, pc, frame, last, msg, gwy, evo, upd>>

NextExec == Execute

SpecExec == InitExec /\ [][NextExec]_vars

-----------------------------------------------------------------------------
(* Properties *)

FrameExists == pc \in {"frame", "msg", "failed", "harvested", "created", "updated"}
MsgExists == pc \in {"msg", "harvested", "created", "updated"}
Harvested == pc \in {"harvested", "created", "updated"}
DomainIds == {F8, F9, FA, FC}

\* the declared length of a line is three decimal digits
LenIsDecimal(l) == Len(l.len_) = 3 /\ \A i \in 1..3 : l.len_[i] \in Digits

\* C1: every Frame the constructor returns (directly or through
\* _from_attrs) has len(payload) == 2 * int(len_); a line whose payload
\* length differs from twice its declared length raises InvalidPacketError
\* and yields no Frame.
C1_PayloadLength ==
    /\ FrameExists => Len(frame.payload) = 2 * IntOf(frame.len_)
    /\ (/\ pc # "new" /\ line.kind = "line" /\ LenIsDecimal(line)
        /\ Len(line.payload) # 2 * IntOf(line.len_))
       => /\ pc = "rejected" /\ frame = NoFrame
          /\ last.op = "Frame" /\ last.err = "InvalidPacketError"

\* a line that matches the grammar and has a legal address set is rejected
\* for its length alone
C1_Witness ==
    /\ pc = "rejected" /\ line.kind = "line"
    /\ COMMAND_REGEX(line) /\ AddrSetValid(line.addrs)
    /\ Len(line.payload) # 2 * IntOf(line.len_)

\* C2 as stated: whenever the array flag of a frame (Frame._has_array) or
\* of a message (Message.is_array) is true, the verb is I or the code is 1FC9.
C2_AsStated ==
    /\ (FrameExists /\ frame.has_array_ = Bool(TRUE))
       => (frame.verb = I_ \/ frame.code = "1FC9")
    /\ (MsgExists /\ msg.is_array_ = Bool(TRUE))
       => (msg.verb = I_ \/ msg.code = "1FC9")

\* C2 as amended: whenever Frame._has_array is true the verb is I or the
\* code is 1FC9; whenever Message.is_array is true the verb is I, or the
\* code is 1FC9, or the message is a 000C reply (verb RP).
C2_ArrayVerb ==
    /\ (FrameExists /\ frame.has_array_ = Bool(TRUE))
       => (frame.verb = I_ \/ frame.code = "1FC9")
    /\ (MsgExists /\ msg.is_array_ = Bool(TRUE))
       => (msg.verb = I_ \/ msg.code = "1FC9" \/ (msg.code = "000C" /\ msg.verb = RP))

\* the array flag of a 000C reply has been read, and is true
C2_Witness ==
    /\ pc = "msg" /\ last.op = "is_array" /\ last.ret = Bool(TRUE)
    /\ msg.code = "000C" /\ msg.verb = RP

\* C3: constructing a Message never raises: when the parser fails (with any
\* exception) or returns an unusable result, the failure is trapped and the
\* message is left marked invalid.
C3_ParserFailureTrapped ==
    (last.op = "Message" /\ last.arg \in {"other", "AssertionError", "ValueError"})
        => (last.err = "none" /\ pc = "msg" /\ msg.is_valid_ = Bool(FALSE))

\* the header of C4: the fields, and the context when it is a string
WithCtx(f, header) == IF IsStr(f.ctx_) THEN Append(header, f.ctx_.s) ELSE header
HdrAddr(f) == IF f.src.type = "18" THEN f.dst ELSE f.src

C5_Line ==
    Line("line", RQ, Dashes, <<RFG, OTB, NON>>, "3220", Fmt03d(5),
         <<"0", "0", "0", "0", "0", "5", "0", "0", "0", "0">>)

\* C5 as stated: for that frame the context is "05", has_controller is
\* false, the header is 3220|RQ|10:050360 and the rx-header 3220|RP|10:050360.
C5_AsStated ==
    (line = C5_Line /\ FrameExists /\ last.err = "none") =>
        /\ last.op = "_ctx" => last.ret = Str(<<"0", "5">>)
        /\ last.op = "_has_ctl" => last.ret = Bool(FALSE)
        /\ last.op \in {"pkt_header", "_hdr"} => last.ret = Str(<<"3220", RQ, OTB>>)
        /\ last.op = "pkt_rx_header" => last.ret = Str(<<"3220", RP, OTB>>)

\* C5 as amended: for that frame the context is "05", has_controller is
\* false, the header is 3220|RQ|30:258720|05 and the rx-header is
\* 3220|RP|30:258720|05, and none of the reads raises.
C5_OpenThermRequest ==
    (line = C5_Line /\ pc # "new") =>
        /\ FrameExists
        /\ last.op \in {"_ctx", "_has_ctl", "pkt_header", "_hdr", "pkt_rx_header"}
            => last.err = "none"
        /\ last.op = "_ctx" => last.ret = Str(<<"0", "5">>)
        /\ last.op = "_has_ctl" => last.ret = Bool(FALSE)
        /\ last.op \in {"pkt_header", "_hdr"} =>
            last.ret = Str(<<"3220", RQ, RFG, <<"0", "5">>>>)
        /\ last.op = "pkt_rx_header" =>
            last.ret = Str(<<"3220", RP, RFG, <<"0", "5">>>>)

\* the rx-header of that frame has been computed
C5_Witness == line = C5_Line /\ pc = "frame" /\ last.op = "pkt_rx_header"

\* C6: for a 1FC9 frame the header is 1FC9|verb|X, X being the NUL address
\* when src == dst and the destination otherwise; the rx-header is
\* 1FC9|W|src when src == dst, 1FC9|I|src for a W with src != dst, and
\* absent otherwise.
C6_BindHeader ==
    (FrameExists /\ frame.code = "1FC9") =>
        /\ last.op \in {"pkt_header", "_hdr", "pkt_rx_header"} => last.err = "none"
        /\ last.op \in {"pkt_header", "_hdr"} =>
            last.ret = Str(<<"1FC9", frame.verb,
                             IF frame.src.id = frame.dst.id
                             THEN <<"63", "262143">> ELSE frame.dst.id>>)
        /\ last.op = "pkt_rx_header" =>
            IF frame.src.id = frame.dst.id
            THEN last.ret = Str(<<"1FC9", W_, frame.src.id>>)
            ELSE IF frame.verb = W_
            THEN last.ret = Str(<<"1FC9", I_, frame.src.id>>)
            ELSE last.ret = None

\* `W 01:145038 -> 34:021943` expects 1FC9|I|01:145038
C6_Witness ==
    /\ pc = "frame" /\ last.op = "pkt_rx_header"
    /\ frame.code = "1FC9" /\ frame.verb = W_
    /\ frame.addrs = <<CTL, REM, NON>>
    /\ last.ret = Str(<<"1FC9", I_, CTL>>)

\* C7: a frame whose declared length is 000 is accepted, has an empty
\* payload, and its has_payload is false, for every verb and code.
C7_EmptyPayload ==
    /\ (/\ pc # "new" /\ line.kind = "line" /\ line.len_ = Fmt03d(0)
        /\ line.payload = <<>> /\ line.verb \in Verbs /\ line.seqn = Dashes
        /\ AddrSetValid(line.addrs) /\ \A i \in 1..3 : IsAddrField(line.addrs[i]))
       => FrameExists
    /\ (FrameExists /\ frame.len_ = Fmt03d(0)) =>
        /\ frame.payload = <<>>
        /\ last.op = "_has_payload" => last.ret = Bool(FALSE)

\* C8 as stated: whenever the index of a frame is one of the domain ids
\* FC, F9, FA, F8, its code is in CODE_IDX_DOMAIN.
C8_AsStated ==
    (FrameExists /\ IsStr(frame.idx_) /\ frame.idx_.s \in DomainIds)
        => frame.code \in CODE_IDX_DOMAIN

\* the codes whose index is read from bytes of their own (_pkt_idx returns
\* before it consults CODE_IDX_DOMAIN)
OwnIndexCodes == {"000C", "0404", "0418", "3220"}

\* C8 as amended: whenever the index of a frame whose code is not 000C,
\* 0404, 0418 or 3220 is one of the domain ids, its code is in
\* CODE_IDX_DOMAIN; a frame of another code that is outside that set and
\* has no fixed absence of an index, whose payload is not an array and
\* begins with a domain id, is rejected with InvalidPayloadError.
C8_DomainIndex ==
    /\ (/\ FrameExists /\ IsStr(frame.idx_) /\ frame.idx_.s \in DomainIds
        /\ frame.code \notin OwnIndexCodes)
       => frame.code \in CODE_IDX_DOMAIN
    /\ (/\ FrameExists /\ last.op = "_idx"
        /\ frame.code \notin CODE_IDX_DOMAIN \cup CODE_IDX_COMPLEX \cup CODE_IDX_NONE
        /\ Slice(frame.payload, 0, 2) \in DomainIds
        /\ frame.has_array_ = Bool(FALSE))
       => (last.err = "InvalidPayloadError" /\ frame.idx_ = None)

\* a 2309 frame whose payload begins with FC has been refused an index
C8_Witness ==
    /\ pc = "frame" /\ last.op = "_idx" /\ last.err = "InvalidPayloadError"
    /\ frame.code = "2309" /\ Slice(frame.payload, 0, 2) = FC

\* C9: whenever has_array is true for a frame of code 000A, 2309 or 30C9,
\* the number of payload hex characters is a multiple of 6.
C9_ArrayLength ==
    (FrameExists /\ frame.code \in {"000A", "2309", "30C9"}
        /\ frame.has_array_ = Bool(TRUE))
        => Len(frame.payload) % 6 = 0

\* a 2309 array of two elements has been recognised
C9_Witness ==
    /\ pc = "frame" /\ last.op = "_has_array" /\ last.ret = Bool(TRUE)
    /\ frame.code = "2309" /\ frame.len = 6

\* the triplets with no device, with three devices, with a device in the
\* first field only, or with a device in the second field but not the first
IllegalShape(a) ==
    <<a[1] = NON, a[2] = NON, a[3] = NON>> \in
        {<<TRUE, TRUE, TRUE>>, <<FALSE, FALSE, FALSE>>, <<FALSE, TRUE, TRUE>>,
         <<TRUE, FALSE, TRUE>>, <<TRUE, FALSE, FALSE>>}

\* C10: a frame whose address triplet is not of a legal shape is rejected
\* by the constructor with InvalidPacketError: there is no Frame and no
\* Message, and the registry of the gateway is unchanged.
C10_InvalidAddrSet ==
    (/\ pc # "new"
     /\ \A i \in 1..3 : IsAddrField(line.addrs[i])
     /\ IllegalShape(line.addrs))
    => /\ pc = "rejected" /\ frame = NoFrame /\ msg = NoMsg /\ gwy = NoDevices
       /\ last.op = "Frame" /\ last.err = "InvalidPacketError"

\* `I --- 01:145038 01:145039 01:145040 0009 003 000000` has been rejected
C10_Witness ==
    /\ pc = "rejected"
    /\ line = Line("line", I_, Dashes, <<CTL, CT2, CT3>>, "0009", Fmt03d(3), Pay(<<>>, 3))

\* C11: a line whose sequence number is the literal "..." is rejected with
\* InvalidPacketError; a line whose sequence number is "---" or three
\* digits, and which is otherwise valid, is accepted by the constructor, and
\* Frame._validate (strict or not) then returns without raising.
Dots == <<".", ".", ".">>

SeqnLegal(s) == s = Dashes \/ (Len(s) = 3 /\ \A i \in 1..3 : s[i] \in Digits)

C11_SequenceNumber ==
    /\ (pc # "new" /\ line.kind = "line" /\ line.seqn = Dots)
       => /\ pc = "rejected" /\ frame = NoFrame
          /\ last.op = "Frame" /\ last.err = "InvalidPacketError"
    /\ (/\ pc # "new" /\ line.kind = "line" /\ SeqnLegal(line.seqn)
        /\ FrameInitErr([line EXCEPT !.seqn = Dashes]) = "none")
       => pc # "rejected" /\ frame.seqn = line.seqn
    /\ last.op = "_validate" => SeqnLegal(frame.seqn) /\ last.err = "none"

\* a line with "..." was rejected for its sequence number alone
C11_Witness ==
    /\ pc = "rejected" /\ line.kind = "line" /\ line.seqn = Dots
    /\ FrameInitErr([line EXCEPT !.seqn = Dashes]) = "none"

\* C12: has_controller is decided by the first rule that applies: (1) src
\* or dst is a CTL, UFC or PRG: true; (2) src is dst: true exactly when the
\* code is controller-only (31D9 and 31DA included) or is 3B00 with a
\* payload that starts FC; (3) dst is the NON address: true unless src is
\* an OTB; (4) dst is a DTS or DT2: true; (5) otherwise false.
CtlRule1(f) == \/ f.src.type \in {"01", "02", "23"}
               \/ f.dst.type \in {"01", "02", "23"}
CtlRule2(f) == f.src = f.dst
CtlRule3(f) == f.dst = NON_DEV_ADDR
CtlRule4(f) == f.dst.type \in {"12", "22"}

CtlExpected(f) ==
    \/ CtlRule1(f)
    \/ /\ ~CtlRule1(f) /\ CtlRule2(f)
       /\ \/ f.code \in CODES_ONLY_FROM_CTL \cup {"31D9", "31DA"}
          \/ f.code = "3B00" /\ Len(f.payload) >= 2
             /\ f.payload[1] = "F" /\ f.payload[2] = "C"
    \/ /\ ~CtlRule1(f) /\ ~CtlRule2(f) /\ CtlRule3(f)
       /\ f.src.type # "10"
    \/ ~CtlRule1(f) /\ ~CtlRule2(f) /\ ~CtlRule3(f) /\ CtlRule4(f)

NoPayloadExpected(f) ==
    \/ Len(f.payload) = 2
    \/ f.verb = "RQ" /\ f.code \in RQ_NO_PAYLOAD
    \/ f.verb = "RQ" /\ Len(f.payload) = 4 /\ f.code # "0016"

C13_HasPayload ==
    /\ (FrameExists /\ frame.has_payload_ # None)
       => frame.has_payload_ = Bool(~NoPayloadExpected(frame))
    /\ last.op = "_has_payload"
       => last.err = "none" /\ last.ret = Bool(~NoPayloadExpected(frame))

\* _has_payload was read on the 2-byte request of code 0016
C13_Witness ==
    /\ last.op = "_has_payload" /\ last.ret = Bool(TRUE)
    /\ frame.verb = "RQ" /\ frame.code = "0016" /\ Len(frame.payload) = 4

\* C14: rendering the frame parsed from a valid line gives the line back,
\* repr(Frame(L)) == L, and the rendering is a fixed point: for every
\* Frame f, repr(f) is a valid line and repr(Frame(repr(f))) == repr(f).
GivenLine == IF line.kind = "attrs" THEN FromAttrsLine(line) ELSE line

Sentinels == {NON_DEV_ADDR.id, NUL_DEV_ADDR.id}

HarvestSpecial(m) ==
    \/ m.code \in {"1F09", "31D9"} /\ m.verb = " I"
    \/ m.code = "000C" /\ m.verb = "RP"

\* the registry holds the source and the destination of the message, the
\* devices ids under the controller c and any other without a controller
Holds(ids, c) ==
    /\ DOMAIN gwy = {msg.src.id, msg.dst.id} \ Sentinels
    /\ \A d \in DOMAIN gwy :
        /\ gwy[d].ctl = IF d \in ids THEN c ELSE NoCtl
        /\ gwy[d].parent = NoZone

C16_HarvestPriority ==
    (Harvested /\ ~HarvestSpecial(msg)) =>
        /\ last.op = "harvest_devices" => last.err = "none"
        /\ IF msg.src.type = "01" THEN Holds({msg.dst.id}, msg.src.id)
           ELSE IF msg.dst.type = "01" THEN Holds({msg.src.id}, msg.dst.id)
           ELSE Holds({}, NoCtl)

\* a controller addressed another controller, and only the destination was
\* claimed
C16_Witness ==
    /\ pc = "harvested" /\ ~HarvestSpecial(msg)
    /\ msg.src.id = CTL /\ msg.dst.id = CT2
    /\ DOMAIN gwy = {CTL, CT2} /\ gwy[CT2].ctl = CTL /\ gwy[CTL].ctl = NoCtl

\* C17: for a 000C RP message whose payload was parsed, harvest_devices
\* records the source as the controller of every actuator the payload
\* lists, each with the payload's zone_idx as its parent zone, whatever the
\* types of the source and the destination are.
C17_ActuatorsHarvested ==
    (/\ Harvested /\ msg.code = "000C" /\ msg.verb = "RP"
     /\ msg.payload = "dict")
    => /\ last.op = "harvest_devices" => last.err = "none"
       /\ \A a \in Actuators(msg) :
            /\ a \in DOMAIN gwy
            /\ gwy[a].ctl = msg.src.id
            /\ gwy[a].parent = <<msg.raw_payload[1], msg.raw_payload[2]>>

\* the reply of a device that is not a controller listed two actuators
C17_Witness ==
    /\ pc = "harvested" /\ msg.code = "000C" /\ msg.verb = "RP"
    /\ msg.payload = "dict" /\ msg.src.id = REM
    /\ Cardinality(Actuators(msg)) = 2
    /\ \A a \in Actuators(msg) : a \in DOMAIN gwy /\ gwy[a].ctl = REM

\* C18: after _create_entities, a message whose parsed payload is a record
\* with a zone_idx has a Zone of that index in the system, and a message
\* whose parsed payload is a list of code 000A, 2309 or 30C9 has a Zone for
\* the zone_idx of every element.
C18_ZonesCreated ==
    pc \in {"created", "updated"} =>
        /\ (msg.payload = "dict" /\ IsStr(zone_idx(msg)))
           => zone_idx(msg).s \in evo.zones
        /\ (msg.payload = "list" /\ msg.code \in {"000A", "2309", "30C9"})
           => ElementZones(msg) \subseteq evo.zones

\* C19: _update_entities delivers every message to the record of its source
\* device; it also delivers the message to a zone exactly when the payload
\* is a record whose zone_idx names an existing zone of the system; a list
\* payload is delivered to no zone; and when the source device has no
\* registry entry nothing is updated and no error is raised.
ZoneNamed(m) ==
    m.payload = "dict" /\ IsStr(zone_idx(m)) /\ zone_idx(m).s \in evo.zones

C19_Deliveries ==
    pc = "updated" =>
        /\ msg.src.id \in DOMAIN gwy =>
            /\ upd.devs = {msg.src.id}
            /\ upd.zones = IF ZoneNamed(msg) THEN {zone_idx(msg).s} ELSE {}
        /\ msg.payload = "list" => upd.zones = {}
        /\ msg.src.id \notin DOMAIN gwy =>
            upd.devs = {} /\ upd.zones = {} /\ last.err = "none"

\* C20: m1 == m2 returns true exactly when verb, code, src, dst and raw
\* payload of the two messages are all equal, and returns false, without
\* raising, when any of them differs.
C20_Equality ==
    last.op = "__eq__" =>
        /\ last.err = "none"
        /\ last.ret = Bool(last.arg = "same")

\* C21: in execute mode discovery is force-disabled: whatever the options
\* of the command line are, the library configuration handed to the gateway
\* has disable_discovery set to true.
C21_DiscoveryDisabled ==
    cli.stage = "main" => cli.disable_discovery = "True"

\* C22: each derived field of a Frame is computed on its first read and
\* every later read returns the value kept, in whatever order the fields
\* are read; only _force_has_array changes kept values: it sets has_array,
\* clears idx, ctx and hdr (they are computed again on the next read) and
\* leaves has_ctl and has_payload as they are.
IsForceStep == last'.op = "_force_has_array"

KeptStays(old, new) == old # None => new = old

ReadReturnsKept(op, old, new) ==
    (last'.op = op /\ last'.err = "none")
        => (last'.ret = new /\ (old # None => last'.ret = old))

C22_Step ==
    (pc = "frame" /\ pc' = "frame") =>
        /\ ~IsForceStep =>
            /\ KeptStays(frame.has_array_, frame'.has_array_)
            /\ KeptStays(frame.has_ctl_, frame'.has_ctl_)
            /\ KeptStays(frame.has_payload_, frame'.has_payload_)
            /\ KeptStays(frame.idx_, frame'.idx_)
            /\ KeptStays(frame.ctx_, frame'.ctx_)
            /\ KeptStays(frame.hdr_, frame'.hdr_)
        /\ ReadReturnsKept("_has_array", frame.has_array_, frame'.has_array_)
        /\ ReadReturnsKept("_has_ctl", frame.has_ctl_, frame'.has_ctl_)
        /\ ReadReturnsKept("_has_payload", frame.has_payload_, frame'.has_payload_)
        /\ ReadReturnsKept("_idx", frame.idx_, frame'.idx_)
        /\ ReadReturnsKept("_ctx", frame.ctx_, frame'.ctx_)
        /\ ReadReturnsKept("_hdr", frame.hdr_, frame'.hdr_)
        /\ IsForceStep =>
            /\ frame'.has_array_ = Bool(TRUE)
            /\ frame'.idx_ = None /\ frame'.ctx_ = None /\ frame'.hdr_ = None
            /\ frame'.has_ctl_ = frame.has_ctl_
            /\ frame'.has_payload_ = frame.has_payload_

\* a value that is kept is the value a first read gives now, whichever
\* reads came before it
SameIfReadNow(kept, r) == (kept # None /\ r.err = "none") => r.ret = kept

C22_AnyOrder ==
    pc = "frame" =>
        /\ SameIfReadNow(frame.has_ctl_, HasCtl([frame EXCEPT !.has_ctl_ = None]))
        /\ SameIfReadNow(frame.has_payload_,
                         HasPayload([frame EXCEPT !.has_payload_ = None]))
        /\ SameIfReadNow(frame.idx_, Idx([frame EXCEPT !.idx_ = None]))
        /\ SameIfReadNow(frame.ctx_, Ctx([frame EXCEPT !.ctx_ = None]))
        /\ SameIfReadNow(frame.hdr_, Hdr([frame EXCEPT !.hdr_ = None]))

C22_Memoised == [][C22_Step]_vars /\ []C22_AnyOrder

\* the index of a one-element 2309 was read after _force_has_array
C22_Witness ==
    /\ pc = "frame" /\ last.op = "_idx" /\ last.ret = Bool(TRUE)
    /\ frame.code = "2309" /\ frame.len = 3 /\ frame.has_array_ = Bool(TRUE)

\* C23: a 22C9 or 3150 frame has has_array true exactly when the verb is
\* I, the source is a UFH controller, src is dst and the payload does not
\* start with F, whether the payload has one element or several.
UfhArrayExpected(f) ==
    /\ f.verb = I_
    /\ f.src.type = DEV_TYPE_UFC
    /\ f.src.id = f.dst.id
    /\ Slice(f.payload, 0, 1) # <<"F">>

C23_UfhArray ==
    (pc = "frame" /\ frame.code \in {"22C9", "3150"})
        => (HasArray([frame EXCEPT !.has_array_ = None]).ret = Bool(TRUE)
                <=> UfhArrayExpected(frame))

\* C24: the index of a 1100 frame is FC when the payload starts with the
\* nibble F and there is none (false) otherwise; a 1100 frame never has any
\* other index.
C24_TuningIndex ==
    (pc = "frame" /\ frame.code = "1100" /\ frame.idx_ # None)
        => frame.idx_ = (IF Slice(frame.payload, 0, 1) = <<"F">>
                         THEN Str(FC) ELSE Bool(FALSE))

\* C25: the context of a frame extends its index: for 0005 and 000C it is
\* the first four characters of the payload, for 0404 it is the index (HW
\* when payload[2:4] is 23) followed by payload[10:12], for every other code
\* it is the index; so whenever the index is a string, the context is a
\* string that begins with it.
\* (i and c are the outcomes of reading _idx and _ctx)
ContextExtendsIndex(f, i, c) ==
    (i.err = "none" /\ c.err = "none") =>
        /\ f.code \in {"0005", "000C"} => c.ret = Str(Slice(f.payload, 0, 4))
        /\ f.code = "0404" =>
            /\ c.ret = Str(i.ret.s \o Slice(f.payload, 10, 12))
            /\ Slice(f.payload, 2, 4) = <<"2", "3">> => i.ret = Str(<<"H", "W">>)
        /\ f.code \notin {"0005", "000C", "0404"} => c.ret = i.ret
        /\ IsStr(i.ret) =>
            /\ IsStr(c.ret)
            /\ Len(c.ret.s) >= Len(i.ret.s)
            /\ SubSeq(c.ret.s, 1, Len(i.ret.s)) = i.ret.s

C25_ContextExtendsIndex ==
    FrameExists => ContextExtendsIndex(frame, Idx(frame), Ctx(frame))

C27_HeaderWhole ==
    (pc = "frame" /\ last.op = "_hdr" /\ last.err = "none")
        => /\ IsStr(last.ret)
           /\ Len(last.ret.s) >= 3
           /\ last.ret.s[1] = frame.code
           /\ IsAddrField(last.ret.s[3])

\* the line of the answer to a request: the RP (or I) that the destination
\* of the RQ (or W) sends back to its source, with the same code and payload
ReplyLine(f) ==
    Line("line", IF f.verb = RQ THEN RP ELSE I_, f.seqn,
         <<f.addrs[2], f.addrs[1], f.addrs[3]>>, f.code, f.len_, f.payload)

\* an RQ or a W that the gateway (HGI) sends to a device
IsRequestFromHgi(f) ==
    /\ f.verb \in {RQ, W_}
    /\ f.src.type = DEV_TYPE_HGI
    /\ f.addrs[2] # NON_DEV_ADDR.id
    /\ f.addrs[3] = NON_DEV_ADDR.id
    /\ ValidateErr(f, TRUE) = "none"

\* C28: for every RQ that the gateway sends to a device (of any type) and
\* the RP that the device sends back with the same code and the same leading
\* bytes, the rx-header of the request is defined and is the header of the
\* reply, and neither computation raises; likewise for a W and the I that
\* answers it.
\* (h is the outcome of reading _hdr of the reply)
Correlated(rx, h) ==
    /\ rx.err = "none" /\ h.err = "none"
    /\ IsStr(rx.ret) /\ rx.ret = h.ret

C28_Correlation ==
    (pc = "frame" /\ last.op = "pkt_rx_header" /\ IsRequestFromHgi(frame))
        => /\ FrameInitErr(ReplyLine(frame)) = "none"
           /\ Correlated(last, Hdr(FrameInit(ReplyLine(frame))))

\* the devices that answer an offer to bind
Binders == {REM, CT2, DTS}

\* the accept of a handshake: the W that b sends to the device that offered
AcceptLine(f, b) ==
    Line("line", W_, f.seqn, <<b, f.src.id, NON>>, f.code, f.len_, f.payload)

\* the confirm of a handshake: the I that the device that offered sends to b
ConfirmLine(f, b) ==
    Line("line", I_, f.seqn, <<f.src.id, b, NON>>, f.code, f.len_, f.payload)

\* (rx is the rx-header of the offer)
Handshake(rx, accept, confirm) ==
    /\ rx.err = "none" /\ IsStr(rx.ret)
    /\ Hdr(accept).err = "none" /\ rx.ret = Hdr(accept).ret
    /\ pkt_header(accept, TRUE).err = "none"
    /\ IsStr(pkt_header(accept, TRUE).ret)
    /\ Hdr(confirm).err = "none"
    /\ pkt_header(accept, TRUE).ret = Hdr(confirm).ret
    /\ pkt_header(confirm, TRUE).err = "none"
    /\ pkt_header(confirm, TRUE).ret = None

\* C29: in a 1FC9 handshake of three frames (the offer, an I that A
\* broadcasts with src = dst = A; the accept, a W from B to A; the confirm,
\* an I from A to B) the rx-header of the offer is the header of the accept,
\* the rx-header of the accept is the header of the confirm, and the
\* confirm expects no response.
C29_BindHandshake ==
    (/\ pc = "frame" /\ last.op = "pkt_rx_header"
     /\ frame.code = "1FC9" /\ frame.verb = I_ /\ frame.src.id = frame.dst.id)
        => \A b \in Binders \ {frame.src.id} :
            /\ FrameInitErr(AcceptLine(frame, b)) = "none"
            /\ FrameInitErr(ConfirmLine(frame, b)) = "none"
            /\ Handshake(last, FrameInit(AcceptLine(frame, b)),
                         FrameInit(ConfirmLine(frame, b)))

\* the rx-header of an offer of the controller was computed: 1FC9|W|01:145038
C29_Witness ==
    /\ pc = "frame" /\ last.op = "pkt_rx_header"
    /\ frame.code = "1FC9" /\ frame.verb = I_ /\ frame.addrs = <<CTL, NON, CTL>>
    /\ last.ret = Str(<<"1FC9", W_, CTL>>)

\* C30: the closing assertion of the constructor of a Message is never
\* violated, for any verb, code, addresses and parse outcome (a failed
\* parse that leaves the payload unset included): every Message whose code
\* is not 000C finishes construction with is_array true exactly when the
\* parsed payload is a list.
C30_ArrayIsList ==
    (last.op = "Message" /\ frame.code # "000C") =>
        /\ last.err # "AssertionError"
        /\ pc = "msg" => (msg.is_array_ = Bool(TRUE) <=> msg.payload = "list")

====
